---- MODULE Spec2Model ----
\* A model of the UAB Research Computing documentation server
\* (src/uab_docs_server.py): the two tools that talk to remote services,
\* get_documentation_page (path normalisation, fetch over the revisions main
\* and master) and search_documentation (one scoped request to the code-search
\* provider, mapping of the hits to documentation entries).
\*
\* Python strings that the code takes apart (paths, identifiers) are sequences
\* of one-character strings; strings the code only passes on (bodies, names,
\* tokens) are TLA+ strings.
EXTENDS Integers, Sequences, FiniteSets, TLC

VARIABLES
    page_pc,            \* get_documentation_page: "idle", "await_main", "await_master", "done"
    page_id,            \* its argument page_path as the caller passed it
    page_path,          \* its local page_path after normalisation
    page_requests,      \* the fetches it has issued in this call, in order
    page_inflight,      \* the fetches issued and not yet answered
    page_responses,     \* the answers it has received in this call, in order
    page_result,        \* its return value
    search_pc,          \* search_documentation: "idle", "await", "done"
    search_query,       \* its argument query
    search_arg,         \* its argument max_results as the caller passed it
    max_results,        \* its local max_results after line 204
    search_requests,    \* the upstream requests it has issued in this call
    search_responses,   \* the answers it has received in this call
    search_result,      \* its return value
    env_token,          \* os.environ["GITHUB_TOKEN"] of the process
    GITHUB_TOKEN,       \* the module global, read once at import
    norm_id,            \* path normalisation on its own: the identifier given
    norm_res,           \* ... and what lines 302-331 make of it
    url_in,             \* path-to-URL transform on its own: the repository path given
    url_out             \* ... and the docs site URL lines 248-263 make of it

page_vars == <<page_pc, page_id, page_path, page_requests, page_inflight,
               page_responses, page_result>>
search_vars == <<search_pc, search_query, search_arg, max_results,
                 search_requests, search_responses, search_result>>
env_vars == <<env_token, GITHUB_TOKEN>>
pure_vars == <<norm_id, norm_res, url_in, url_out>>
vars == <<page_vars, search_vars, env_vars, pure_vars>>

-----------------------------------------------------------------------------
\* Bounds of the model.

\* Caller-supplied max_results ranges over -MaxResultsBelow .. 10 + MaxResultsAbove.
MaxResultsBelow == 3
MaxResultsAbove == 2
\* Upstream item lists: every sequence of hits up to MaxShortItems, and one
\* list of each length up to 10 + MaxItemsAbove.
MaxShortItems == 2
MaxItemsAbove == 2
\* Identifiers given to the path normalisation on its own, and repository paths
\* given to the path-to-URL transform on its own: every concatenation of up to
\* this many pieces.
MaxNormTokens == 3
MaxUrlTokens == 5

-----------------------------------------------------------------------------
\* Python str methods, on sequences of characters.

Min(S) == CHOOSE x \in S : \A y \in S : x <= y

\* s.startswith(p)
StartsWith(s, p) == Len(p) <= Len(s) /\ SubSeq(s, 1, Len(p)) = p

\* s.endswith(p)
EndsWith(s, p) == Len(p) <= Len(s) /\ SubSeq(s, Len(s) - Len(p) + 1, Len(s)) = p

\* s.find(sub), 1-based; 0 when sub does not occur
Find(s, sub) ==
    LET at == {i \in 1..(Len(s) - Len(sub) + 1) : SubSeq(s, i, i + Len(sub) - 1) = sub}
    IN  IF at = {} THEN 0 ELSE Min(at)

\* sub in s
Contains(s, sub) == Find(s, sub) # 0

\* s.replace(old, new, count); count = -1 replaces every occurrence
RECURSIVE PyReplace(_, _, _, _)
PyReplace(s, old, new, count) ==
    IF count = 0 THEN s
    ELSE LET i == Find(s, old)
         IN  IF i = 0 THEN s
             ELSE SubSeq(s, 1, i - 1) \o new
                  \o PyReplace(SubSeq(s, i + Len(old), Len(s)), old, new, count - 1)

\* s.split(sep, maxsplit); maxsplit = -1 splits at every occurrence
RECURSIVE PySplit(_, _, _)
PySplit(s, sep, maxsplit) ==
    IF maxsplit = 0 THEN <<s>>
    ELSE LET i == Find(s, sep)
         IN  IF i = 0 THEN <<s>>
             ELSE <<SubSeq(s, 1, i - 1)>>
                  \o PySplit(SubSeq(s, i + Len(sep), Len(s)), sep, maxsplit - 1)

\* s.lstrip(c): every leading c is dropped
LStrip(s, c) ==
    LET keep == {i \in 1..Len(s) : s[i] # c}
    IN  IF keep = {} THEN <<>> ELSE SubSeq(s, Min(keep), Len(s))

\* s.rstrip(c): every trailing c is dropped
RStrip(s, c) ==
    LET keep == {i \in 1..Len(s) : s[i] # c}
    IN  IF keep = {} THEN <<>>
        ELSE SubSeq(s, 1, CHOOSE i \in keep : \A j \in keep : j <= i)

\* items[-n:], the slice taken from the wrong end
PySliceFrom(items, n) ==
    IF n >= 0
    THEN SubSeq(items, Len(items) - (IF n < Len(items) THEN n ELSE Len(items)) + 1, Len(items))
    ELSE SubSeq(items, 1 - n, Len(items))
\* items[:n] of a Python list
PySliceTo(items, n) ==
    IF n >= 0
    THEN SubSeq(items, 1, IF n < Len(items) THEN n ELSE Len(items))
    ELSE SubSeq(items, 1, Len(items) + n)

\* min(a, b)
PyMin(a, b) == IF b < a THEN b ELSE a

-----------------------------------------------------------------------------
\* String literals of the code.

S_http == <<"h", "t", "t", "p">>
S_github_com == <<"g", "i", "t", "h", "u", "b", ".", "c", "o", "m">>
S_blob == <<"/", "b", "l", "o", "b", "/">>
S_slash == <<"/">>
S_docs == <<"d", "o", "c", "s", "/">>
S_md == <<".", "m", "d">>
S_README == <<"R", "E", "A", "D", "M", "E">>

DOCS_BASE_URL == "https://docs.rc.uab.edu"
GITHUB_API_BASE == "https://api.github.com"
GITHUB_REPO == "uabrc/uabrc.github.io"

-----------------------------------------------------------------------------
\* Python values that a request can hand back: None, a str, or what
\* response.json() builds (dict, list, str, number).

PyNone == [t |-> "None", v |-> ""]
PyStr(body) == [t |-> "str", v |-> body]
PyJson(type, body) == [t |-> type, v |-> body]

\* not content, which an empty body satisfies too
IsNoneFalsy(content) == content = PyNone \/ content = PyStr("")
\* content is None
IsNone(content) == content = PyNone

\* isinstance(content, dict)
IsDict(content) == content.t = "dict"

\* response.json() on a body; "raise" stands for json.JSONDecodeError
JsonParse(body) ==
    CASE body = "{}"   -> PyJson("dict", body)
      [] body = "[]"   -> PyJson("list", body)
      [] body = "null" -> PyNone
      [] body = "7"    -> PyJson("number", body)
      [] OTHER         -> PyJson("raise", body)

\* Response.is_success, which raise_for_status() tests
IsSuccess(code) == code \in 200..299

\* "application/json" in content_type
JsonContentTypes == {"application/json", "application/json; charset=utf-8"}

-----------------------------------------------------------------------------
\* The raw-content host as the fetch sees it.

TextBodies == {"", "# Slurm", "{}", "[]", "null", "7", "{"}
ContentTypes == {"text/plain; charset=utf-8", "application/json", ""}
FailureCodes == {404, 500}

\* What one GET can end in: an HTTP response, a transport error
\* (httpx.TransportError) or a timeout (httpx.TimeoutException).
FetchOutcomes ==
    {[kind |-> "response", code |-> 200, ctype |-> c, body |-> b] :
        c \in ContentTypes, b \in TextBodies}
    \cup {[kind |-> "response", code |-> k, ctype |-> "", body |-> ""] : k \in FailureCodes}
    \cup {[kind |-> k, code |-> 0, ctype |-> "", body |-> ""] : k \in {"transport", "timeout"}}

\* make_http_request: the value the caller gets for an outcome of the GET.
make_http_request(out) ==
    IF out.kind # "response" THEN PyNone                 \* except httpx.HTTPError
    ELSE IF ~IsSuccess(out.code) THEN PyNone             \* raise_for_status()
    ELSE IF out.ctype \in JsonContentTypes
         THEN IF JsonParse(out.body).t = "raise"
              THEN PyNone                                \* except Exception
              ELSE JsonParse(out.body)
         ELSE PyStr(out.body)

-----------------------------------------------------------------------------
\* get_documentation_page

\* The revisions in the other order.
BranchCandidatesSwapped == <<"master", "main">>
\* The revisions tried, in the order of lines 331 and 340.
BranchCandidates == <<"main", "master">>

\* raw_url for a revision
RawUrl(branch, path) ==
    [host |-> "https://raw.githubusercontent.com", repo |-> GITHUB_REPO,
     branch |-> branch, path |-> path]

\* Lines 302-316: the working path of the identifier, or the error the
\* URL branch returns.
ExtractPath(id) ==
    IF StartsWith(id, S_http)
    THEN IF Contains(id, S_github_com)
         THEN LET parts == PySplit(id, S_blob, -1)
              IN  IF Len(parts) > 1
                  THEN LET path_parts == PySplit(parts[2], S_slash, 1)
                       IN  IF Len(path_parts) > 1
                           THEN [ok |-> TRUE, err |-> "", path |-> path_parts[2]]
                           ELSE [ok |-> FALSE, err |-> "error_no_file_path", path |-> id]
                  ELSE [ok |-> TRUE, err |-> "", path |-> id]
         ELSE [ok |-> FALSE, err |-> "error_not_github_url", path |-> id]
    ELSE [ok |-> TRUE, err |-> "", path |-> id]

\* docs/ put in front without looking whether it is there.
CleanPathAlwaysPrefix(p) ==
    LET a == LStrip(p, "/")
        b == S_docs \o a
    IN  IF ~EndsWith(b, S_md) THEN b \o S_md ELSE b
\* The extension never added.
CleanPathNoExtension(p) ==
    LET a == LStrip(p, "/")
    IN  IF ~StartsWith(a, S_docs) THEN S_docs \o a ELSE a
\* Lines 318-327: leading slashes off, docs/ in front, .md behind.
CleanPath(p) ==
    LET a == LStrip(p, "/")
        b == IF ~StartsWith(a, S_docs) THEN S_docs \o a ELSE a
    IN  IF ~EndsWith(b, S_md) THEN b \o S_md ELSE b

\* Lines 302-327: the canonical path of an identifier, or the error returned.
Normalize(id) ==
    LET e == ExtractPath(id)
    IN  IF e.ok THEN [ok |-> TRUE, err |-> "", path |-> CleanPath(e.path)] ELSE e

\* Lines 350-352: the docs site URL shown with the page.
DisplayPath(p) == RStrip(PyReplace(PyReplace(p, S_docs, <<>>, 1), S_md, <<>>, -1), "/")
DocsSiteUrl(p) == [base |-> DOCS_BASE_URL, path |-> DisplayPath(p)]

NoUrl == [base |-> "", path |-> <<>>]

PageError(kind, path) ==
    [kind |-> kind, path |-> path, url |-> NoUrl, content |-> PyNone]

\* Lines 347-368: what the call returns once it holds a content that is not None.
PageResult(content, path) ==
    IF IsDict(content)
    THEN PageError("error_json", <<>>)
    ELSE [kind |-> "page", path |-> path, url |-> DocsSiteUrl(path), content |-> content]

PageIdentifiers ==
    LET cs == <<"c", "/", "s">>
        gh == S_http \o <<"s", ":", "/", "/">> \o S_github_com \o <<"/", "o", "/", "r">>
    IN  { <<>>, cs, S_slash \o cs, S_slash \o S_slash \o cs, S_docs \o cs, cs \o S_md,
          S_docs \o cs \o S_md,
          S_docs \o <<"g", "/">> \o S_README \o S_md,
          gh \o S_blob \o <<"m", "a", "i", "n", "/">> \o S_docs \o cs \o S_md,
          gh \o S_blob \o <<"m", "a", "i", "n">>,
          gh,
          S_http \o <<"s", ":", "/", "/", "e", "x", ".", "c", "o", "/">> \o cs,
          S_http \o <<"s", ":", "/", "/", "e", "x", ".", "c", "o", "/">> \o S_github_com
            \o S_slash \o cs,
          gh \o S_blob \o <<"m", "a", "i", "n", "/">> \o S_docs \o <<"b", "l", "o", "b", "/">>
            \o cs \o S_md,
          S_http \o <<"d", "/">> \o cs }

\* The call up to its first await (lines 302-336).
PageCall(id) ==
    /\ page_pc = "idle"
    /\ page_id' = id
    /\ page_responses' = <<>>
    /\ LET e == ExtractPath(id)
       IN  IF ~e.ok
           THEN /\ page_pc' = "done"
                /\ page_path' = e.path
                /\ page_requests' = <<>>
                /\ page_inflight' = {}
                /\ page_result' = PageError(e.err, e.path)
           ELSE /\ page_pc' = "await_main"
                /\ page_path' = CleanPath(e.path)
                /\ page_requests' = <<RawUrl(BranchCandidates[1], CleanPath(e.path))>>
                /\ page_inflight' = {1}
                /\ page_result' = PageError("", <<>>)
    /\ UNCHANGED <<search_vars, env_vars, pure_vars>>

\* The first fetch returns (lines 336-342, and 347-368 when it has content).
PageMainResponse(out) ==
    /\ page_pc = "await_main"
    /\ page_responses' = Append(page_responses, out)
    /\ LET content == make_http_request(out)
       IN  IF IsNone(content)
           THEN /\ page_pc' = "await_master"
                /\ page_requests' = Append(page_requests, RawUrl(BranchCandidates[2], page_path))
                /\ page_inflight' = (page_inflight \ {1}) \cup {2}
                /\ UNCHANGED page_result
           ELSE /\ page_pc' = "done"
                /\ page_inflight' = page_inflight \ {1}
                /\ page_result' = PageResult(content, page_path)
                /\ UNCHANGED page_requests
    /\ UNCHANGED <<page_id, page_path, search_vars, env_vars, pure_vars>>

\* The second fetch returns (lines 342-368).
PageMasterResponse(out) ==
    /\ page_pc = "await_master"
    /\ page_responses' = Append(page_responses, out)
    /\ page_inflight' = page_inflight \ {2}
    /\ page_pc' = "done"
    /\ LET content == make_http_request(out)
       IN  IF IsNone(content)
           THEN page_result' = PageError("error_unable_to_fetch", page_path)
           ELSE page_result' = PageResult(content, page_path)
    /\ UNCHANGED <<page_id, page_path, page_requests, search_vars, env_vars, pure_vars>>

\* The caller takes the result; the tool can be called again.
PageReturn ==
    /\ page_pc = "done"
    /\ page_pc' = "idle"
    /\ UNCHANGED <<page_id, page_path, page_requests, page_inflight, page_responses,
                   page_result, search_vars, env_vars, pure_vars>>

-----------------------------------------------------------------------------
\* search_documentation

USER_AGENT == "UAB-RC-MCP-Server/1.0"

\* os.environ.get("GITHUB_TOKEN"): unset, or set to a string (possibly empty).
EnvUnset == [set |-> FALSE, v |-> ""]
EnvValues == {EnvUnset} \cup {[set |-> TRUE, v |-> t] : t \in {"", "ghp_A", "ghp_B"}}

\* if GITHUB_TOKEN: neither None nor the empty string
Truthy(tok) == tok.set /\ tok.v # ""

\* Lines 210-212 and 219: the headers of the upstream request.
SearchHeaders(tok) ==
    [accept |-> "application/vnd.github.v3+json",
     authorization |-> IF Truthy(tok) THEN <<"Bearer", tok.v>> ELSE <<>>,
     user_agent |-> USER_AGENT]

\* Lines 207-208: the request of one search.
SearchRequest(query, per_page, tok) ==
    [url |-> <<GITHUB_API_BASE, "/search/code">>,
     q |-> <<query, "repo:", GITHUB_REPO>>,
     per_page |-> per_page,
     headers |-> SearchHeaders(tok)]

\* Lines 248-263: the docs site URL of a repository path.
RemoveMd(p) == PyReplace(p, S_md, <<>>, -1)                               \* line 250
RemoveReadme(p) == PyReplace(p, S_README, <<>>, -1)                       \* line 253
StripDocsPrefix(p) == IF StartsWith(p, S_docs) THEN SubSeq(p, 6, Len(p)) ELSE p  \* lines 256-257
StripTrailingSlashes(p) == RStrip(p, "/")                                 \* line 260
CleanedPath(file_path) ==
    StripTrailingSlashes(StripDocsPrefix(RemoveReadme(RemoveMd(file_path))))
DocUrl(file_path) == [base |-> DOCS_BASE_URL, path |-> CleanedPath(file_path)]

\* Lines 244-270: one entry of the result, from item number i of the slice.
ResultEntry(i, item) ==
    [i |-> i, file_name |-> item.name, doc_url |-> DocUrl(item.path),
     html_url |-> item.html_url, file_path |-> item.path]

\* The texts the tool returns (lines 229, 231, 232, 235, 238, 241).
AUTH_FAILED == "Error: GitHub API authentication failed. Set GITHUB_TOKEN environment variable for authenticated access."
RATE_LIMITED == "Error: GitHub API rate limit exceeded. Set GITHUB_TOKEN environment variable for higher rate limits."
SEARCH_ERROR == "Error searching documentation: "
NO_RESULTS == "No results found for "
FOUND == "Found "

SearchOutput(text, detail, entries) ==
    [text |-> text, detail |-> detail, entries |-> entries]

\* 401 and 403 answered alike.
StatusErrorResultConflated(code) ==
    IF code = 401 \/ code = 403
    THEN SearchOutput(RATE_LIMITED, <<>>, <<>>)
    ELSE SearchOutput(SEARCH_ERROR, <<"HTTP", code>>, <<>>)
\* Lines 228-232: the result for a non-success status.
StatusErrorResult(code) ==
    IF code = 401 THEN SearchOutput(AUTH_FAILED, <<>>, <<>>)
    ELSE IF code = 403 THEN SearchOutput(RATE_LIMITED, <<>>, <<>>)
    ELSE SearchOutput(SEARCH_ERROR, <<"HTTP", code>>, <<>>)

\* data.get("items") and data.get("total_count", 0) on the parsed body
DictGetItems(data) == IF "items" \in data.keys THEN data.items ELSE <<>>
DictGetTotal(data) == IF "total_count" \in data.keys THEN data.total_count ELSE 0

\* The first item read inside the try block before the list is tested.
SearchDataResultFirstItem(data, query, cap) ==
    IF DictGetItems(data) = <<>>
    THEN SearchOutput(SEARCH_ERROR, <<"list index out of range">>, <<>>)
    ELSE SearchOutput(FOUND, <<DictGetTotal(data), query>>,
            [i \in 1..Len(PySliceTo(data.items, cap)) |->
                ResultEntry(i, PySliceTo(data.items, cap)[i])])
\* Lines 237-277: the result for a parsed body that is a dict.
SearchDataResult(data, query, cap) ==
    IF DictGetItems(data) = <<>>                     \* not data.get("items")
    THEN SearchOutput(NO_RESULTS, <<query>>, <<>>)
    ELSE SearchOutput(FOUND, <<DictGetTotal(data), query>>,
            [i \in 1..Len(PySliceTo(data.items, cap)) |->
                ResultEntry(i, PySliceTo(data.items, cap)[i])])

\* An AttributeError that leaves the tool: data.get on a body that is no dict.
RAISED == "AttributeError"

\* Lines 214-277: the result of the call for an outcome of its one GET.
SearchResultOf(out, query, cap) ==
    IF out.kind # "response"
    THEN SearchOutput(SEARCH_ERROR, <<out.kind>>, <<>>)          \* except Exception
    ELSE IF ~IsSuccess(out.code)
    THEN StatusErrorResult(out.code)                             \* except HTTPStatusError
    ELSE IF out.data.t = "invalid"
    THEN SearchOutput(SEARCH_ERROR, <<"JSONDecodeError">>, <<>>) \* except Exception
    ELSE IF out.data.t # "dict"
    THEN SearchOutput(RAISED, <<>>, <<>>)
    ELSE SearchDataResult(out.data, query, cap)

\* The code-search provider as the search sees it.
Hits ==
    << [name |-> "s.md", path |-> S_docs \o <<"c", "/", "s">> \o S_md,
        html_url |-> "https://github.com/uabrc/uabrc.github.io/blob/main/docs/c/s.md"],
       [name |-> "README.md", path |-> S_docs \o <<"g", "/">> \o S_README \o S_md,
        html_url |-> "https://github.com/uabrc/uabrc.github.io/blob/main/docs/g/README.md"],
       [name |-> "i.md", path |-> S_docs \o <<"i">> \o S_md,
        html_url |-> "https://github.com/uabrc/uabrc.github.io/blob/main/docs/i.md"] >>

HitSet == {Hits[i] : i \in 1..Len(Hits)}

ItemLists ==
    UNION {[1..n -> HitSet] : n \in 0..MaxShortItems}
    \cup {[i \in 1..n |-> Hits[(i % Len(Hits)) + 1]] : n \in (MaxShortItems + 1)..(10 + MaxItemsAbove)}

NoData == [t |-> "none", keys |-> {}, items |-> <<>>, total_count |-> 0]

SearchBodies ==
    {[t |-> "dict", keys |-> {"items", "total_count"}, items |-> l, total_count |-> Len(l)] :
        l \in ItemLists}
    \cup {[t |-> "dict", keys |-> {"items"}, items |-> l, total_count |-> 0] :
        l \in {l \in ItemLists : Len(l) <= 1}}
    \cup {[t |-> "dict", keys |-> {"total_count"}, items |-> <<>>, total_count |-> 0],
          [t |-> "nondict", keys |-> {}, items |-> <<>>, total_count |-> 0],
          [t |-> "invalid", keys |-> {}, items |-> <<>>, total_count |-> 0]}

SearchFailureCodes == {401, 403, 404, 422, 500}

SearchOutcomes ==
    {[kind |-> "response", code |-> 200, data |-> d] : d \in SearchBodies}
    \cup {[kind |-> "response", code |-> k, data |-> NoData] : k \in SearchFailureCodes}
    \cup {[kind |-> k, code |-> 0, data |-> NoData] : k \in {"transport", "timeout"}}

Queries == {"slurm", "gpu"}
MaxResultsArgs == (0 - MaxResultsBelow)..(10 + MaxResultsAbove)

NoOutput == SearchOutput("", <<>>, <<>>)

\* The call up to its await (lines 204-221).
SearchCall(query, n) ==
    /\ search_pc = "idle"
    /\ search_pc' = "await"
    /\ search_query' = query
    /\ search_arg' = n
    /\ max_results' = PyMin(n, 10)
    /\ search_requests' = <<SearchRequest(query, PyMin(n, 10), GITHUB_TOKEN)>>
    /\ search_responses' = <<>>
    /\ search_result' = NoOutput
    /\ UNCHANGED <<page_vars, env_vars, pure_vars>>

\* A transport failure answered by sending the request once more.
SearchResponseRetry(out) ==
    /\ search_pc = "await"
    /\ search_responses' = Append(search_responses, out)
    /\ IF out.kind # "response" /\ Len(search_requests) < 2
       THEN /\ search_requests' = Append(search_requests, search_requests[1])
            /\ UNCHANGED <<search_pc, search_result>>
       ELSE /\ search_pc' = "done"
            /\ search_result' = SearchResultOf(out, search_query, max_results)
            /\ UNCHANGED search_requests
    /\ UNCHANGED <<search_query, search_arg, max_results, page_vars, env_vars, pure_vars>>
\* The GET returns and the call runs to its return (lines 222-277).
SearchResponse(out) ==
    /\ search_pc = "await"
    /\ search_pc' = "done"
    /\ search_responses' = Append(search_responses, out)
    /\ search_result' = SearchResultOf(out, search_query, max_results)
    /\ UNCHANGED <<search_query, search_arg, max_results, search_requests,
                   page_vars, env_vars, pure_vars>>

\* The caller takes the result; the tool can be called again.
SearchReturn ==
    /\ search_pc = "done"
    /\ search_pc' = "idle"
    /\ UNCHANGED <<search_query, search_arg, max_results, search_requests,
                   search_responses, search_result, page_vars, env_vars, pure_vars>>

\* The environment of the process changes (os.environ is mutable; the module
\* global was read at import and is not read again).
EnvChange(tok) ==
    /\ env_token # tok
    /\ env_token' = tok
    /\ UNCHANGED <<GITHUB_TOKEN, page_vars, search_vars, pure_vars>>

-----------------------------------------------------------------------------
\* The two pure parts on their own, over wider sets of inputs than the tools
\* above are driven with.

\* Every concatenation of at most n pieces of T.
RECURSIVE Concats(_, _)
Concats(T, n) ==
    IF n = 0 THEN {<<>>}
    ELSE LET shorter == Concats(T, n - 1)
         IN  shorter \cup {t \o w : t \in T, w \in shorter}

NormTokens ==
    { S_http \o <<"s", ":", "/", "/">> \o S_github_com \o <<"/", "o", "/", "r">>,
      S_http \o <<"s", ":", "/", "/", "e", "x", ".", "c", "o", "/">>,
      S_blob \o <<"m", "a", "i", "n", "/">>,
      S_blob, S_github_com, S_http, S_slash, S_docs, S_md, <<"c">> }
NormInputs == Concats(NormTokens, MaxNormTokens)

UrlTokens == { S_docs, S_md, S_README, <<"c">>, <<"c", "/">>, <<"s">> }
UrlInputs == Concats(UrlTokens, MaxUrlTokens)

NoRawUrl == RawUrl("", <<>>)
NotNormalized == [ok |-> FALSE, err |-> "not_applied", path |-> <<>>, raw_url |-> NoRawUrl]

\* Lines 302-331 of get_documentation_page: the identifier is normalised and,
\* when accepted, the fetch address of the first revision is built from it.
NormalizeApply(id) ==
    /\ norm_res = NotNormalized
    /\ norm_id' = id
    /\ LET n == Normalize(id)
       IN  norm_res' = [ok |-> n.ok, err |-> n.err, path |-> n.path,
                        raw_url |-> IF n.ok THEN RawUrl(BranchCandidates[1], n.path)
                                            ELSE NoRawUrl]
    /\ UNCHANGED <<page_vars, search_vars, env_vars, url_in, url_out>>

\* Lines 248-263 of search_documentation: the docs site URL of one hit's path.
CanonicalizeApply(p) ==
    /\ url_out = NoUrl
    /\ url_in' = p
    /\ url_out' = DocUrl(p)
    /\ UNCHANGED <<page_vars, search_vars, env_vars, norm_id, norm_res>>

-----------------------------------------------------------------------------
\* Specifications. The two tools share no state (each call opens its own
\* client), so each is checked on its own.

Init ==
    /\ page_pc = "idle"
    /\ page_id = <<>>
    /\ page_path = <<>>
    /\ page_requests = <<>>
    /\ page_inflight = {}
    /\ page_responses = <<>>
    /\ page_result = PageError("", <<>>)
    /\ search_pc = "idle"
    /\ search_query = ""
    /\ search_arg = 5
    /\ max_results = 5
    /\ search_requests = <<>>
    /\ search_responses = <<>>
    /\ search_result = NoOutput
    /\ env_token \in EnvValues
    /\ GITHUB_TOKEN = env_token                      \* line 128, at import
    /\ norm_id = <<>>
    /\ norm_res = NotNormalized
    /\ url_in = <<>>
    /\ url_out = NoUrl

PageNext ==
    \/ \E id \in PageIdentifiers : PageCall(id)
    \/ \E out \in FetchOutcomes : PageMainResponse(out)
    \/ \E out \in FetchOutcomes : PageMasterResponse(out)
    \/ PageReturn

SearchNext ==
    \/ \E q \in Queries, n \in MaxResultsArgs : SearchCall(q, n)
    \/ \E out \in SearchOutcomes : SearchResponse(out)
    \/ SearchReturn
    \/ \E tok \in EnvValues : EnvChange(tok)

\* Each pure part is applied once to an input of its set.
NormNext == norm_res = NotNormalized /\ \E id \in NormInputs : NormalizeApply(id)
UrlNext == url_out = NoUrl /\ \E p \in UrlInputs : CanonicalizeApply(p)

PageSpec == Init /\ [][PageNext]_vars
SearchSpec == Init /\ [][SearchNext]_vars
NormSpec == Init /\ [][NormNext]_vars
UrlSpec == Init /\ [][UrlNext]_vars

Next == PageNext \/ SearchNext \/ NormNext \/ UrlNext
Spec == Init /\ [][Next]_vars

-----------------------------------------------------------------------------
\* Vocabulary of the properties: what an outcome of a fetch is, in the terms
\* of the content resolver.

\* The fetch failed: network failure, timeout, non-success status, or a body
\* announced as JSON that does not decode.
FetchFailed(out) ==
    \/ out.kind \in {"transport", "timeout"}
    \/ out.kind = "response" /\ ~IsSuccess(out.code)
    \/ /\ out.kind = "response" /\ IsSuccess(out.code)
       /\ out.ctype \in JsonContentTypes /\ JsonParse(out.body).t = "raise"

\* The fetch succeeded with a plain-text body.
FetchedText(out) ==
    out.kind = "response" /\ IsSuccess(out.code) /\ out.ctype \notin JsonContentTypes

\* The fetch succeeded with a structured payload: a JSON document.
FetchedJson(out) ==
    /\ out.kind = "response" /\ IsSuccess(out.code)
    /\ out.ctype \in JsonContentTypes /\ JsonParse(out.body).t # "raise"

PageFinished == page_pc = "done"

-----------------------------------------------------------------------------
\* Properties of get_documentation_page (checked under PageSpec).

\* C1: the revisions are requested in the order main, master, each at most
\* once, the second only after the first has been answered and never two at a
\* time; and when main answers with a plain-text body, that body is the
\* content of the result and master is never requested.
C1_MainThenMasterSequential ==
    /\ Len(page_requests) <= 2
    /\ \A i \in 1..Len(page_requests) :
          /\ page_requests[i].branch = <<"main", "master">>[i]
          /\ page_requests[i].path = page_path
    /\ Cardinality(page_inflight) <= 1
    /\ Len(page_requests) = 2 => (Len(page_responses) >= 1 /\ 1 \notin page_inflight)
    /\ (Len(page_responses) >= 1 /\ FetchedText(page_responses[1])) =>
          /\ Len(page_requests) = 1
          /\ page_pc \in {"done", "idle"}
          /\ page_result.kind = "page"
          /\ page_result.content = PyStr(page_responses[1].body)

C1_Witness ==
    /\ PageFinished
    /\ Len(page_requests) = 1 /\ page_requests[1].branch = "main"
    /\ Len(page_responses) = 1 /\ FetchedText(page_responses[1])
    /\ page_result.content = PyStr("# Slurm")

\* C2: when main fails and master then answers with a plain-text body, the
\* call returns master's body as the page, and the result is no error.
C2_FallbackContentNoError ==
    (/\ PageFinished
     /\ Len(page_responses) = 2
     /\ FetchFailed(page_responses[1])
     /\ FetchedText(page_responses[2])) =>
        /\ page_result.kind = "page"
        /\ page_result.content = PyStr(page_responses[2].body)
        /\ page_result.path = page_path

C2_Witness ==
    /\ PageFinished
    /\ Len(page_responses) = 2
    /\ page_responses[1].kind = "timeout"
    /\ FetchedText(page_responses[2]) /\ page_responses[2].body = ""
    /\ page_result.kind = "page"

\* C3: the call ends with the not-found error exactly when main and master
\* have both been requested and have both failed.
C3_NotFoundIffBothFailed ==
    PageFinished =>
        (page_result.kind = "error_unable_to_fetch"
         <=> /\ Len(page_requests) = 2
             /\ Len(page_responses) = 2
             /\ FetchFailed(page_responses[1])
             /\ FetchFailed(page_responses[2]))

\* C4: a fetch that succeeds with a JSON payload ends the call at once with the
\* unexpected-content-type error; no later revision is requested.
C4_JsonFailsImmediately ==
    \A i \in 1..Len(page_responses) :
        FetchedJson(page_responses[i]) =>
            /\ Len(page_requests) = i
            /\ page_pc \in {"done", "idle"}
            /\ page_result.kind = "error_json"

-----------------------------------------------------------------------------
\* Properties of search_documentation (checked under SearchSpec).

SearchFinished == search_pc = "done"

\* The cap clamped to 1..10.
ClampedCap(n) == IF n < 1 THEN 1 ELSE IF n > 10 THEN 10 ELSE n

\* The upstream answered with a success status and a JSON object.
SearchSucceeded(out) ==
    out.kind = "response" /\ IsSuccess(out.code) /\ out.data.t = "dict"

\* C5: every upstream request carries a page size in 1..10, whatever
\* max_results the caller passed.
C5_PageSizeInRange ==
    \A i \in 1..Len(search_requests) : search_requests[i].per_page \in 1..10

\* C6: the result never holds more entries than the cap clamped to 1..10.
C6_EntriesWithinClampedCap ==
    SearchFinished => Len(search_result.entries) <= ClampedCap(search_arg)

\* C7: status 401 gives the authentication-failure result and status 403 the
\* rate-limited result; the two differ, neither is given for anything else,
\* and any other non-success status gives the generic search error.
C7_AuthAndRateLimitKeptApart ==
    /\ AUTH_FAILED # RATE_LIMITED
    /\ SearchFinished =>
         LET out == search_responses[Len(search_responses)]
             status == IF out.kind = "response" THEN out.code ELSE 0
         IN  /\ status = 401 <=> search_result.text = AUTH_FAILED
             /\ status = 403 <=> search_result.text = RATE_LIMITED
             /\ (out.kind = "response" /\ ~IsSuccess(status) /\ status \notin {401, 403}) =>
                   search_result.text = SEARCH_ERROR

C7_Witness ==
    /\ SearchFinished
    /\ search_responses[1].kind = "response" /\ search_responses[1].code = 401
    /\ search_result.text = AUTH_FAILED

\* C8: a call issues exactly one upstream request, whatever the outcome; a
\* failed request is not followed by another.
C8_ExactlyOneRequest ==
    /\ search_pc \in {"await", "done"} => Len(search_requests) = 1
    /\ Len(search_requests) <= 1
    /\ SearchFinished => Len(search_responses) = 1

C8_Witness ==
    /\ SearchFinished
    /\ search_responses[1].kind = "timeout"
    /\ Len(search_requests) = 1
    /\ search_result.text = SEARCH_ERROR

\* C9: a successful response with zero hits gives a result with no entries
\* that is none of the failure results.
C9_ZeroHitsIsNoError ==
    (/\ SearchFinished
     /\ SearchSucceeded(search_responses[1])
     /\ "items" \in search_responses[1].data.keys
     /\ search_responses[1].data.items = <<>>) =>
        /\ search_result.text = NO_RESULTS
        /\ search_result.entries = <<>>
        /\ search_result.text \notin {AUTH_FAILED, RATE_LIMITED, SEARCH_ERROR, RAISED}

C9_Witness ==
    /\ SearchFinished
    /\ SearchSucceeded(search_responses[1])
    /\ "items" \in search_responses[1].data.keys
    /\ search_responses[1].data.items = <<>>
    /\ search_result.text = NO_RESULTS

\* C10: the entries are the upstream items in upstream order: entry i comes
\* from item i (same name, path and repository URL), so the entries are a
\* prefix of the upstream items.
C10_EntriesArePrefixOfItems ==
    (SearchFinished /\ SearchSucceeded(search_responses[1])) =>
        LET items == search_responses[1].data.items
            entries == search_result.entries
        IN  /\ Len(entries) <= Len(items)
            /\ \A i \in 1..Len(entries) :
                  /\ entries[i].i = i
                  /\ entries[i].file_name = items[i].name
                  /\ entries[i].file_path = items[i].path
                  /\ entries[i].html_url = items[i].html_url

C10_Witness ==
    /\ SearchFinished
    /\ SearchSucceeded(search_responses[1])
    /\ Len(search_result.entries) = 2
    /\ Len(search_responses[1].data.items) > 2
    /\ search_result.entries[1].file_path # search_result.entries[2].file_path
    /\ search_result.entries[1].file_path = search_responses[1].data.items[1].path

-----------------------------------------------------------------------------
\* Vocabulary of the properties about identifiers.

S_scheme_sep == <<":", "/", "/">>

\* The identifier is an absolute URL: http:// or https:// and what follows.
IsAbsoluteUrl(id) ==
    \/ StartsWith(id, S_http \o S_scheme_sep)
    \/ StartsWith(id, S_http \o <<"s">> \o S_scheme_sep)

\* What follows the :// of an absolute URL.
AfterScheme(id) == SubSeq(id, Find(id, S_scheme_sep) + 3, Len(id))

\* The host of an absolute URL: from the :// to the next slash.
UrlHost(id) == PySplit(AfterScheme(id), S_slash, 1)[1]

\* The URL holds a /blob/REVISION/ segment with a revision name in it.
HasBlobSegment(id) ==
    /\ Contains(id, S_blob)
    /\ LET rest == SubSeq(id, Find(id, S_blob) + Len(S_blob), Len(id))
       IN  Find(rest, S_slash) > 1

\* The substring after the /blob/REVISION/ segment.
AfterBlobSegment(id) ==
    LET rest == SubSeq(id, Find(id, S_blob) + Len(S_blob), Len(id))
    IN  SubSeq(rest, Find(rest, S_slash) + 1, Len(rest))

\* A relative path with neither the docs/ prefix nor the .md extension.
IsPlainRelativePath(p) ==
    /\ ~StartsWith(p, S_slash)
    /\ ~Contains(p, S_scheme_sep)
    /\ ~StartsWith(p, S_docs)
    /\ ~EndsWith(p, S_md)

Accepted(path) == [ok |-> TRUE, err |-> "", path |-> path]

PageCalled == page_pc \in {"await_main", "await_master", "done"}

InvalidReference == {"error_not_github_url", "error_no_file_path"}

-----------------------------------------------------------------------------
\* Properties of the path normalisation (NormSpec: the normalisation on its
\* own; PageSpec: inside get_documentation_page).

\* C11: normalising the canonical path of an accepted identifier gives that
\* canonical path again.
C11_NormalizeIdempotent ==
    norm_res.ok => Normalize(norm_res.path) = Accepted(norm_res.path)

C11_Witness ==
    /\ norm_res.ok
    /\ norm_id = S_slash \o <<"c">>
    /\ norm_res.path = S_docs \o <<"c">> \o S_md

\* C12: for a relative path p without the docs/ prefix and without the .md
\* extension, p, /p, docs/p, p.md and docs/p.md all normalise to docs/p.md.
C12_VariantsNormalizeAlike ==
    (norm_res # NotNormalized /\ IsPlainRelativePath(norm_id)) =>
        /\ norm_res.ok /\ norm_res.path = S_docs \o norm_id \o S_md
        /\ \A v \in {norm_id, S_slash \o norm_id, S_docs \o norm_id, norm_id \o S_md,
                     S_docs \o norm_id \o S_md} :
              Normalize(v) = Accepted(S_docs \o norm_id \o S_md)

\* C13: an absolute URL on github.com with a /blob/REVISION/ segment is
\* worked on as the substring after that segment; an absolute URL on any other
\* host ends the call with the invalid-reference error and no request, also
\* when github.com occurs elsewhere in it.
C13_UrlHostDecides ==
    (PageCalled /\ IsAbsoluteUrl(page_id)) =>
        /\ (UrlHost(page_id) = S_github_com /\ HasBlobSegment(page_id)) =>
              page_path = CleanPath(AfterBlobSegment(page_id))
        /\ UrlHost(page_id) # S_github_com =>
              /\ page_pc = "done"
              /\ page_result.kind \in InvalidReference
              /\ page_requests = <<>>

\* C14: the empty identifier ends the call with the invalid-reference error:
\* no fetch is issued for it.
C14_EmptyIdentifierRejected ==
    (PageCalled /\ page_id = <<>>) =>
        /\ page_pc = "done"
        /\ page_result.kind \in InvalidReference
        /\ page_requests = <<>>

\* C15: the canonical path a fetch address is built from starts with docs/,
\* ends with .md, and neither starts nor ends with a slash.
C15_CanonicalPathShape ==
    norm_res.ok =>
        LET p == norm_res.raw_url.path
        IN  /\ p = norm_res.path
            /\ StartsWith(p, S_docs)
            /\ EndsWith(p, S_md)
            /\ ~StartsWith(p, S_slash)
            /\ ~EndsWith(p, S_slash)

C15_Witness ==
    /\ norm_res.ok
    /\ norm_id = S_slash \o <<"c">> \o S_slash
    /\ norm_res.raw_url.branch = "main"
    /\ norm_res.raw_url.path = S_docs \o <<"c">> \o S_slash \o S_md

-----------------------------------------------------------------------------
\* Properties of the path-to-URL transform (UrlSpec).

UrlApplied == url_out # NoUrl

\* The path without its trailing .md, when it has one.
DropTrailingMd(p) == IF EndsWith(p, S_md) THEN SubSeq(p, 1, Len(p) - Len(S_md)) ELSE p

\* What lies between the docs/ prefix and the .md extension.
Middle(p) == SubSeq(p, Len(S_docs) + 1, Len(p) - Len(S_md))

\* The path is docs/DIR/NAME.md: a directory part of one or more names and a
\* file name, none of them empty, the extension occurring only at the end.
IsDocsDirName(p) ==
    /\ StartsWith(p, S_docs) /\ EndsWith(p, S_md) /\ Len(p) > Len(S_docs) + Len(S_md)
    /\ ~Contains(Middle(p), S_md)
    /\ LET segs == PySplit(Middle(p), S_slash, -1)
       IN  Len(segs) >= 2 /\ \A i \in 1..Len(segs) : segs[i] # <<>>

FileName(p) == LET segs == PySplit(Middle(p), S_slash, -1) IN segs[Len(segs)]
DirPart(p) == SubSeq(Middle(p), 1, Len(Middle(p)) - Len(FileName(p)) - 1)

\* C16: the transform applied to the path of a URL it produced gives that
\* path again.
C16_TransformIdempotentOnOutput ==
    UrlApplied => DocUrl(url_out.path) = url_out

\* C17: docs/DIR/NAME.md becomes host/DIR/NAME, and docs/DIR/README.md becomes
\* host/DIR.
C17_DirNameUrl ==
    (UrlApplied /\ IsDocsDirName(url_in)) =>
        /\ url_out.base = DOCS_BASE_URL
        /\ url_out.path = IF FileName(url_in) = S_README
                          THEN DirPart(url_in)
                          ELSE DirPart(url_in) \o S_slash \o FileName(url_in)

-----------------------------------------------------------------------------
\* Further properties of search_documentation (SearchSpec).

\* C18: the Authorization header of a call is the bearer of the credential the
\* environment holds when the call is made, and is absent exactly when the
\* environment holds none; the request is issued either way.
C18_CredentialReadAtCall ==
    [][(search_pc = "idle" /\ search_pc' = "await") =>
          /\ Len(search_requests') = 1
          /\ search_requests'[1].headers.authorization =
                IF Truthy(env_token) THEN <<"Bearer", env_token.v>> ELSE <<>>]_vars

\* The upstream answered with a success status and a body that is not the
\* agreed one: not JSON, not an object, or an object without items.
SearchMalformed(out) ==
    /\ out.kind = "response" /\ IsSuccess(out.code)
    /\ out.data.t # "dict" \/ "items" \notin out.data.keys

\* C19: a malformed successful response gives the generic search error, never
\* the result of a search without hits.
C19_MalformedIsSearchError ==
    (SearchFinished /\ SearchMalformed(search_responses[1])) =>
        /\ search_result.text = SEARCH_ERROR
        /\ search_result.text # NO_RESULTS

-----------------------------------------------------------------------------
\* C20: the transform drops .md only as the trailing suffix of the path: for a
\* repository path (docs/ in front, .md behind) the URL is what the other steps
\* make of the path without that suffix, an .md elsewhere in it kept.
C20_OnlyTrailingMdDropped ==
    (UrlApplied /\ StartsWith(url_in, S_docs) /\ EndsWith(url_in, S_md)) =>
        url_out.path =
            StripTrailingSlashes(StripDocsPrefix(RemoveReadme(DropTrailingMd(url_in))))

-----------------------------------------------------------------------------
\* The two tools side by side (PageSpec).

\* The call returned a page: content with its path and docs site URL.
PageShown == PageFinished /\ page_result.kind = "page"

\* C21: the docs site URL that get_documentation_page shows for the page it
\* fetched at a canonical path is the URL that search_documentation shows for
\* a hit with that path, index files named README.md included.
C21_ToolsShowSameUrl ==
    PageShown => page_result.url = DocUrl(page_result.path)

====
